---- MODULE Spec2Model ----
(***************************************************************************)
(* Blueprint-driven page dispatch of kazshh786/ai-site-agent.              *)
(*                                                                         *)
(* Two dispatchers are modelled:                                           *)
(*   DynamicPage  src/sites/shahslogistics_co_uk/app/[...slug]/page.tsx    *)
(*   Page         src/templates/renderer/dynamic_page_renderer.tsx         *)
(* A server runs one of the two Next.js apps (variable app) and serves     *)
(* requests that interleave at the awaits of the async functions.          *)
(*                                                                         *)
(* Two further components have their own specifications:                   *)
(*   SpecContent  the contentlayer route app/[slug]/page.tsx               *)
(*   SpecForm     the Form component, src/unnamed/part_007                 *)
(*   SpecSubmit   a page with the Form or the Login component              *)
(*                (src/unnamed/part_019); FairSpecSubmit adds that every   *)
(*                promise of onSubmit and onLogin settles                  *)
(*                                                                         *)
(* JavaScript values that flow through dynamically typed places are tagged *)
(* records: [t |-> "undefined"], [t |-> "array", v |-> <<...>>],           *)
(* [t |-> "function", name, length], [t |-> "object"].  Objects with       *)
(* string keys (property bags, blueprint.pages, componentMap) are TLA+     *)
(* functions whose DOMAIN is the set of own keys.                          *)
(***************************************************************************)
EXTENDS Integers, Sequences, FiniteSets, TLC

\* ---------------------------------------------------------------- bounds
MaxComponents == 2
MaxSections == 2
MaxPages == 2
MaxSlugLen == 2

\* Requests in flight at the same time
Requests == {"r1", "r2"}

SeqUpTo(S, n) == UNION {[1..m -> S] : m \in 0..n}

\* ------------------------------------------------------- JavaScript values
Undefined == [t |-> "undefined"]

Arr(s) == [t |-> "array", v |-> s]

\* Properties every object literal and every JSON.parse result inherits
\* from Object.prototype (ECMAScript): name and arity of each function.
ObjectPrototype ==
  [constructor    |-> [t |-> "function", name |-> "Object", length |-> 1],
   toString       |-> [t |-> "function", name |-> "toString", length |-> 0],
   valueOf        |-> [t |-> "function", name |-> "valueOf", length |-> 0],
   hasOwnProperty |-> [t |-> "function", name |-> "hasOwnProperty", length |-> 1],
   __proto__      |-> [t |-> "object"]]

\* obj[key] for a key that is no own property of an object whose prototype
\* is Object.prototype.
Inherited(key) ==
  IF key \in DOMAIN ObjectPrototype THEN ObjectPrototype[key] ELSE Undefined

\* Array.prototype.join
RECURSIVE Join(_, _)
Join(s, sep) ==
  IF Len(s) = 0 THEN ""
  ELSE IF Len(s) = 1 THEN s[1]
  ELSE s[1] \o sep \o Join(Tail(s), sep)

\* JSX attributes: a later attribute or spread overrides an earlier one.
JsxSpread(earlier, later) == later @@ earlier

\* ----------------------------------------------------------------- inputs
Segments == {"pricing", "constructor"}

\* params.slug: absent, or a list of up to MaxSlugLen path segments (a first
\* segment of Segments, then "item" segments)
SlugSet ==
  {Undefined, Arr(<<>>)} \cup
  {Arr(<<s>> \o [i \in 1..n |-> "item"]) :
     s \in Segments, n \in 0..(MaxSlugLen - 1)}

NoHeading == [t |-> "undefined"]

\* a string value
Str(s) == [t |-> "string", v |-> s]

Truthy(v) == /\ v.t \notin {"undefined", "null"}
             /\ ~(v.t = "string" /\ v.v = "")

\* ------------------------------------------- DynamicPage (shahslogistics)
\* Mutant: a switch with the cases of the two auth buttons only.
RenderCasesAuthOnly == {"Sign Up", "Login"}

\* The case labels of the switch in renderComponent.
RenderCases ==
  {"Footer Navigation", "Route Optimization", "Login", "Login Form Heading",
   "Customer Review 2", "Forgot Password", "Pricing Main Heading",
   "Main Hero Heading", "Testimonial Heading",
   "Shahs Logistics Logo (Dashboard)", "Billing Cycle Toggle",
   "Customer Review 1", "Email Input Field", "Features Main Heading",
   "Hero Subtitle", "Social Links", "Real-time Tracking", "Live Tracking Map",
   "User Profile", "Notifications", "Pricing Subtitle", "Features Subtitle",
   "Inventory Management", "Shahs Logistics Logo", "Total Shipments Card",
   "Advanced Reporting", "Password Input Field", "Recent Shipments",
   "Background Image", "Sign Up", "Illustration of Features",
   "Main Navigation", "Dashboard Sidebar Nav", "Basic Plan", "Pro Plan",
   "Book a Demo", "Copyright Info", "Get Started", "Submit Login",
   "Dashboard Main Title", "Enterprise Plan"}

\* Mutant: a known component receives the bag as one prop named props
\* instead of the spread bag.
renderComponentNoSpread(component) ==
  IF component.component_name \in RenderCases
  THEN [type  |-> component.component_name,
        props |-> [props |-> component.props]]
  ELSE [type  |-> "Placeholder",
        props |-> JsxSpread([componentName |-> component.component_name],
                            component.props)]

\* renderComponent: the element built for one blueprint component.
renderComponent(component) ==
  IF component.component_name \in RenderCases
  THEN [type  |-> component.component_name,
        props |-> JsxSpread(<<>>, component.props)]
  ELSE [type  |-> "Placeholder",
        props |-> JsxSpread([componentName |-> component.component_name],
                            component.props)]

\* <React.Fragment key={component.id}>{renderComponent(component)}</...>
RenderFragment(component) ==
  [key |-> component.id, child |-> renderComponent(component)]

\* Mutant: the components of a section are emitted in reverse order.
RenderComponentsReversed(components) ==
  [j \in 1..Len(components) |->
     RenderFragment(components[Len(components) + 1 - j])]

\* section.components.map(...)
RenderComponents(components) ==
  [j \in 1..Len(components) |-> RenderFragment(components[j])]

\* <section key id> {section.heading && <h2>} <div>{components}</div>
RenderSection(section) ==
  [key   |-> section.id,
   id    |-> section.id,
   h2    |-> IF Truthy(section.heading) THEN section.heading ELSE NoHeading,
   nodes |-> RenderComponents(section.components)]

\* page.sections.map(...)
RenderSections(sections) ==
  [i \in 1..Len(sections) |-> RenderSection(sections[i])]

\* pagePath of DynamicPage
PagePath(slug) ==
  IF Truthy(slug) /\ Len(slug.v) > 0 THEN "/" \o Join(slug.v, "/") ELSE "/"

\* Mutant: when no page matches, the first page of the blueprint is used.
FindPageOrFirst(pages, pagePath) ==
  LET hits == {i \in 1..Len(pages) : pages[i].page_path = pagePath}
  IN  IF hits = {}
      THEN IF Len(pages) = 0 THEN Undefined
           ELSE [t |-> "object", v |-> pages[1]]
      ELSE [t |-> "object",
            v |-> pages[CHOOSE i \in hits : \A k \in hits : i <= k]]

\* Array.prototype.find on siteBlueprint.pages: the first page whose
\* page_path is pagePath, or undefined.
FindPage(pages, pagePath) ==
  LET hits == {i \in 1..Len(pages) : pages[i].page_path = pagePath}
  IN  IF hits = {} THEN Undefined
      ELSE [t |-> "object",
            v |-> pages[CHOOSE i \in hits : \A k \in hits : i <= k]]

\* The element DynamicPage returns for params.slug = slug.
DynamicPageView(blueprint, slug) ==
  LET page == FindPage(blueprint.pages, PagePath(slug))
  IN  IF ~Truthy(page)
      THEN [kind |-> "notFound",
            url  |-> "/" \o (IF Truthy(slug) THEN Join(slug.v, "/") ELSE "")]
      ELSE [kind     |-> "page",
            sections |-> RenderSections(page.v.sections)]

\* Blueprints embedded in a generated site.  Component and section ids are
\* unique per distinct component or section, as in the embedded blueprint.
Components ==
  {[component_name |-> "Login", props |-> [text |-> "Sign in"],
    id |-> "C_Login"],
   [component_name |-> "Mystery", props |-> [text |-> "Sign in"],
    id |-> "C_Mystery"],
   [component_name |-> "Mystery",
    props |-> [text |-> "Sign in", componentName |-> "Other"],
    id |-> "C_Other"]}

\* A section with any list of up to MaxComponents components, no heading.
MainSections ==
  {[section_name |-> "Main", heading |-> NoHeading, components |-> cs,
    id |-> "S_Main"] : cs \in SeqUpTo(Components, MaxComponents)}

\* A section with one known component and a heading h.
SimpleSection(h) ==
  [section_name |-> "Footer", heading |-> h, id |-> "S_Footer",
   components |-> <<[component_name |-> "Login",
                     props |-> [text |-> "Sign in"], id |-> "C_Login"]>>]

Footers(n) == [i \in 1..n |-> SimpleSection(Str("Footer"))]

PagePaths == {"/", "/pricing"}

\* One main section among simple ones, up to MaxSections sections in all.
SectionLists ==
  {<<>>} \cup
  {Footers(a) \o <<s>> \o Footers(b) :
     s \in MainSections,
     a \in 0..(MaxSections - 1), b \in 0..(MaxSections - 1)}

RichPages ==
  {[page_name |-> "Page", page_path |-> p, sections |-> ss, id |-> "P_1"] :
     p \in PagePaths,
     ss \in {l \in SectionLists : Len(l) <= MaxSections}}

SimplePages ==
  {[page_name |-> "Page", page_path |-> p, id |-> "P_1",
    sections |-> <<SimpleSection(h)>>] :
     p \in PagePaths, h \in {NoHeading, Str("Our Plans")}}

\* One page with a main section, or up to MaxPages simple pages (page paths
\* may repeat).
BlueprintSet ==
  {[pages |-> <<p>>] : p \in RichPages}
    \cup {[pages |-> ps] : ps \in SeqUpTo(SimplePages, MaxPages)}

\* ------------------------------------------------ the embedded blueprint
\* siteBlueprint as embedded in app/[...slug]/page.tsx, with the fields the
\* interfaces Component, Section and Page declare.  No section of it has a
\* heading.  One definition per section, named by the id of the section; the
\* copyright sign and the bullets of two prop texts are written in ASCII.
S_Header ==
  [section_name |-> "Global Header", heading |-> NoHeading,
   id |-> "S_Header",
   components |-> <<
     [component_name |-> "Shahs Logistics Logo", id |-> "C_Logo",
      props |-> [imageSrc |-> "/assets/logo.png",
        imageAlt |-> "Shahs Logistics Logo"]],
     [component_name |-> "Main Navigation", id |-> "C_MainNav",
      props |-> [items |-> <<[label |-> "Home", link |-> "/"],
        [label |-> "Features", link |-> "/features"], [label |-> "Pricing",
        link |-> "/pricing"], [label |-> "Contact", link |-> "/contact"]>>]],
     [component_name |-> "Sign Up", id |-> "C_SignUpBtn",
      props |-> [text |-> "Sign Up", link |-> "/signup",
        variant |-> "primary", size |-> "medium"]],
     [component_name |-> "Login", id |-> "C_LoginBtn",
      props |-> [text |-> "Login", link |-> "/login",
        variant |-> "secondary", size |-> "medium"]]>>]

S_Home_Hero ==
  [section_name |-> "Hero Section", heading |-> NoHeading,
   id |-> "S_Home_Hero",
   components |-> <<
     [component_name |-> "Main Hero Heading", id |-> "C_HeroHeading",
      props |-> [level |-> "h1",
        text |-> "Streamline Your Logistics Operations"]],
     [component_name |-> "Hero Subtitle", id |-> "C_HeroSubtitle",
      props |-> [text |-> "Shahs Logistics provides advanced SaaS tools to manage your fleet, deliveries, and supply chain with unparalleled efficiency."]],
     [component_name |-> "Get Started", id |-> "C_GetStartedBtn",
      props |-> [text |-> "Get Started", link |-> "/signup",
        variant |-> "primary", size |-> "large"]],
     [component_name |-> "Book a Demo", id |-> "C_BookDemoBtn",
      props |-> [text |-> "Book a Demo", link |-> "/book-demo",
        variant |-> "outline", size |-> "large"]],
     [component_name |-> "Background Image", id |-> "C_HeroBgImage",
      props |-> [imageSrc |-> "/assets/hero-bg.jpg",
        imageAlt |-> "Logistics hub background"]]>>]

S_Home_Testimonials ==
  [section_name |-> "Testimonials Section", heading |-> NoHeading,
   id |-> "S_Home_Testimonials",
   components |-> <<
     [component_name |-> "Testimonial Heading", id |-> "C_TestimonialHeading",
      props |-> [level |-> "h2", text |-> "What Our Clients Say"]],
     [component_name |-> "Customer Review 1", id |-> "C_Testimonial1",
      props |-> [quote |-> "Shahs Logistics transformed our delivery process!",
        author |-> "Alice Doe", role |-> "Logistics Manager at Coorp"]],
     [component_name |-> "Customer Review 2", id |-> "C_Testimonial2",
      props |-> [quote |-> "Highly reliable and easy to use.",
        author |-> "Bob Smith", role |-> "Owner of Small Moves"]]>>]

S_Footer ==
  [section_name |-> "Global Footer", heading |-> NoHeading,
   id |-> "S_Footer",
   components |-> <<
     [component_name |-> "Copyright Info", id |-> "C_Copyright",
      props |-> [text |-> "(c) 2024 Shahs Logistics. All rights reserved."]],
     [component_name |-> "Footer Navigation", id |-> "C_FooterNav",
      props |-> [items |-> <<[label |-> "Privacy Policy",
        link |-> "/privacy"], [label |-> "Terms of Service",
        link |-> "/terms"]>>]],
     [component_name |-> "Social Links", id |-> "C_SocialLinks",
      props |-> [links |-> <<[platform |-> "Twitter",
        url |-> "https://twitter.com/shahlog"], [platform |-> "LinkedIn",
        url |-> "https://linkedin.com/company/shahlog"]>>]]>>]

S_Features_Hero ==
  [section_name |-> "Features Hero Section", heading |-> NoHeading,
   id |-> "S_Features_Hero",
   components |-> <<
     [component_name |-> "Features Main Heading", id |-> "C_FeaturesHeading",
      props |-> [level |-> "h1",
        text |-> "Powerful Features for Modern Logistics"]],
     [component_name |-> "Features Subtitle", id |-> "C_FeaturesSubtitle",
      props |-> [text |-> "Shahs Logistics offers advanced tools to streamline operations, enhance visibility, and optimize efficiency across your supply chain."]],
     [component_name |-> "Illustration of Features", id |-> "C_FeaturesImage",
      props |-> [imageSrc |-> "/assets/features-illustration.svg",
        imageAlt |-> "Illustration of features"]]>>]

S_Features_List ==
  [section_name |-> "Feature List Section", heading |-> NoHeading,
   id |-> "S_Features_List",
   components |-> <<
     [component_name |-> "Real-time Tracking", id |-> "C_FeatureCard_Tracking",
      props |-> [heading |-> "Real-time Tracking",
        description |-> "Monitor your fleet and shipments on a live map.",
        icon |-> "globe"]],
     [component_name |-> "Route Optimization", id |-> "C_FeatureCard_Optimization",
      props |-> [heading |-> "Route Optimization",
        description |-> "Smart algorithms for fuel-efficient routes.",
        icon |-> "route"]],
     [component_name |-> "Inventory Management", id |-> "C_FeatureCard_Inventory",
      props |-> [heading |-> "Inventory Management",
        description |-> "Track and manage inventory across locations.",
        icon |-> "box"]],
     [component_name |-> "Advanced Reporting", id |-> "C_FeatureCard_Reporting",
      props |-> [heading |-> "Advanced Reporting",
        description |-> "Insightful analytics to optimize performance.",
        icon |-> "chart-bar"]]>>]

S_Pricing_Hero ==
  [section_name |-> "Pricing Hero Section", heading |-> NoHeading,
   id |-> "S_Pricing_Hero",
   components |-> <<
     [component_name |-> "Pricing Main Heading", id |-> "C_PricingHeading",
      props |-> [level |-> "h1", text |-> "Affordable Pricing Plans"]],
     [component_name |-> "Pricing Subtitle", id |-> "C_PricingSubtitle",
      props |-> [text |-> "Choose the plan that suits your business size and needs."]]>>]

S_Pricing_Plans ==
  [section_name |-> "Pricing Plans Section", heading |-> NoHeading,
   id |-> "S_Pricing_Plans",
   components |-> <<
     [component_name |-> "Billing Cycle Toggle", id |-> "C_PricingToggle",
      props |-> [label |-> "Monthly/Yearly", options |-> <<"Monthly",
        "Yearly">>]],
     [component_name |-> "Basic Plan", id |-> "C_PricingCard_Basic",
      props |-> [planName |-> "Basic", price |-> "$99",
        features |-> <<"1 User", "Up to 10 Shipments">>,
        buttonText |-> "Start Basic"]],
     [component_name |-> "Pro Plan", id |-> "C_PricingCard_Pro",
      props |-> [planName |-> "Pro", price |-> "$199",
        features |-> <<"5 Users", "Unlimited Shipments">>,
        buttonText |-> "Go Pro"]],
     [component_name |-> "Enterprise Plan", id |-> "C_PricingCard_Enterprise",
      props |-> [planName |-> "Enterprise", price |-> "Contact Us",
        features |-> <<"Unlimited Users", "Priority Support">>,
        buttonText |-> "Contact Sales"]]>>]

S_Header_Login ==
  [section_name |-> "Login Header", heading |-> NoHeading,
   id |-> "S_Header_Login",
   components |-> <<
     [component_name |-> "Shahs Logistics Logo", id |-> "C_LoginLogo",
      props |-> [imageSrc |-> "/assets/logo.png",
        imageAlt |-> "Shahs Logistics Logo"]]>>]

S_Login_Form ==
  [section_name |-> "Login Form Section", heading |-> NoHeading,
   id |-> "S_Login_Form",
   components |-> <<
     [component_name |-> "Login Form Heading", id |-> "C_LoginFormHeading",
      props |-> [level |-> "h2", text |-> "Welcome Back!"]],
     [component_name |-> "Email Input Field", id |-> "C_EmailInput",
      props |-> [label |-> "Email Address",
        placeholder |-> "Enter your email", type |-> "email"]],
     [component_name |-> "Password Input Field", id |-> "C_PasswordInput",
      props |-> [label |-> "Password", placeholder |-> "********",
        type |-> "password"]],
     [component_name |-> "Submit Login", id |-> "C_LoginSubmitBtn",
      props |-> [text |-> "Login", variant |-> "primary", size |-> "large",
        fullWidth |-> TRUE]],
     [component_name |-> "Forgot Password", id |-> "C_ForgotPasswordLink",
      props |-> [text |-> "Forgot Password?", link |-> "/forgot-password"]]>>]

S_DashboardHeader ==
  [section_name |-> "Dashboard Header", heading |-> NoHeading,
   id |-> "S_DashboardHeader",
   components |-> <<
     [component_name |-> "Shahs Logistics Logo (Dashboard)", id |-> "C_DashboardLogo",
      props |-> [imageSrc |-> "/assets/logo-icon.png",
        imageAlt |-> "Shahs Logistics Icon"]],
     [component_name |-> "User Profile", id |-> "C_UserProfileDropdown",
      props |-> [label |-> "User Profile", items |-> <<[label |-> "Settings",
        link |-> "/dashboard/settings"], [label |-> "Logout",
        link |-> "/logout"]>>]],
     [component_name |-> "Notifications", id |-> "C_NotificationsIcon",
      props |-> [iconName |-> "bell", count |-> 3]]>>]

S_DashboardSidebar ==
  [section_name |-> "Dashboard Sidebar", heading |-> NoHeading,
   id |-> "S_DashboardSidebar",
   components |-> <<
     [component_name |-> "Dashboard Sidebar Nav", id |-> "C_SidebarNav",
      props |-> [items |-> <<[label |-> "Overview", link |-> "/dashboard",
        icon |-> "home"], [label |-> "Shipments",
        link |-> "/dashboard/shipments", icon |-> "truck"],
        [label |-> "Drivers", link |-> "/dashboard/drivers",
        icon |-> "user"], [label |-> "Analytics",
        link |-> "/dashboard/analytics", icon |-> "chart"]>>]]>>]

S_DashboardContent ==
  [section_name |-> "Dashboard Main Content Area", heading |-> NoHeading,
   id |-> "S_DashboardContent",
   components |-> <<
     [component_name |-> "Dashboard Main Title", id |-> "C_DashboardTitle",
      props |-> [level |-> "h1", text |-> "Dashboard Overview"]],
     [component_name |-> "Total Shipments Card", id |-> "C_TotalShipmentsCard",
      props |-> [heading |-> "Total Shipments", value |-> "1,234",
        description |-> "This month"]],
     [component_name |-> "Live Tracking Map", id |-> "C_MapComponent",
      props |-> [mapType |-> "realtime-tracker", centerLat |-> "34.0522",
        centerLng |-> "-118.2437"]],
     [component_name |-> "Recent Shipments", id |-> "C_RecentShipmentsTable",
      props |-> [headers |-> <<"ID", "Status", "Destination">>,
        rows |-> <<<<"SH001", "In Transit", "NYC">>, <<"SH002", "Delivered",
        "LA">>>>]]>>]

\* Mutant: the Features page declared with the path of the Homepage.
EmbeddedBlueprintTwoHomes ==
  [pages |-> <<
     [page_name |-> "Homepage", page_path |-> "/", id |-> "P_Home",
      sections |-> <<S_Header, S_Home_Hero, S_Home_Testimonials, S_Footer>>],
     [page_name |-> "Features Page", page_path |-> "/", id |-> "P_Features",
      sections |-> <<S_Header, S_Features_Hero, S_Features_List, S_Footer>>],
     [page_name |-> "Login Page", page_path |-> "/login", id |-> "P_Login",
      sections |-> <<S_Header_Login, S_Login_Form>>]>>]

EmbeddedBlueprint ==
  [pages |-> <<
     [page_name |-> "Homepage", page_path |-> "/",
      id |-> "P_Home",
      sections |-> <<S_Header, S_Home_Hero, S_Home_Testimonials, S_Footer>>],
     [page_name |-> "Features Page", page_path |-> "/features",
      id |-> "P_Features",
      sections |-> <<S_Header, S_Features_Hero, S_Features_List, S_Footer>>],
     [page_name |-> "Pricing Page", page_path |-> "/pricing",
      id |-> "P_Pricing",
      sections |-> <<S_Header, S_Pricing_Hero, S_Pricing_Plans, S_Footer>>],
     [page_name |-> "Login Page", page_path |-> "/login",
      id |-> "P_Login",
      sections |-> <<S_Header_Login, S_Login_Form>>],
     [page_name |-> "Dashboard Page", page_path |-> "/dashboard",
      id |-> "P_Dashboard",
      sections |-> <<S_DashboardHeader, S_DashboardSidebar,
        S_DashboardContent>>]>>]

\* params.slug of the requests for the pages of the embedded blueprint that
\* SlugSet does not hold
EmbeddedSlugs == {Arr(<<"features">>), Arr(<<"login">>), Arr(<<"dashboard">>)}

\* The Placeholder component: the name it displays is props.componentName.
Placeholder(props) ==
  IF "componentName" \in DOMAIN props THEN Str(props.componentName)
  ELSE Inherited("componentName")

\* ------------------------------------------------ Page (template renderer)
Fn(n) == [t |-> "function", name |-> n, length |-> 1]

\* componentMap: the registry of the template renderer.
componentMap ==
  [HeroSection1 |-> Fn("HeroSection1"),
   FeatureGrid3 |-> Fn("FeatureGrid3"),
   ContactForm1 |-> Fn("ContactForm1")]

\* The element the map callback of Page returns for componentData at index.
RenderNode(componentData, index) ==
  LET Component ==
        IF componentData.component_name \in DOMAIN componentMap
        THEN componentMap[componentData.component_name]
        ELSE Inherited(componentData.component_name)
  IN  IF ~Truthy(Component)
      THEN [type  |-> "Placeholder",
            key   |-> index,
            props |-> [component_name |-> componentData.component_name]]
      ELSE [type  |-> Component.name,
            key   |-> index,
            props |-> JsxSpread(<<>>, componentData.props)]

\* componentsToRender.map(...)
RenderNodes(components) ==
  [i \in 1..Len(components) |-> RenderNode(components[i], i - 1)]

\* pageKey of Page
PageKey(slug) == IF Truthy(slug) THEN Join(slug.v, "/") ELSE "home"

\* blueprint.pages[pageKey] || []
ComponentsToRender(blueprint, pageKey) ==
  LET found == IF pageKey \in DOMAIN blueprint.pages
               THEN Arr(blueprint.pages[pageKey])
               ELSE Inherited(pageKey)
  IN  IF Truthy(found) THEN found ELSE Arr(<<>>)

\* v.length === 0
LengthIsZero(v) ==
  \/ v.t = "array" /\ Len(v.v) = 0
  \/ v.t = "function" /\ v.length = 0

\* The element Page returns (or the error it throws) for params.slug = slug,
\* given the blueprint getBlueprint resolved to.
PageView(blueprint, slug) ==
  LET pageKey == PageKey(slug)
      componentsToRender == ComponentsToRender(blueprint, pageKey)
  IN  IF LengthIsZero(componentsToRender) /\ pageKey # "home"
      THEN [kind |-> "notFound", pageKey |-> pageKey]
      ELSE IF componentsToRender.t # "array"
      THEN [kind |-> "throw", error |-> "TypeError"]
      ELSE [kind |-> "page", nodes |-> RenderNodes(componentsToRender.v)]

\* getBlueprint, SITE_DIRECTORY not set
ConfigurationErrorBlueprint ==
  [client_name |-> "Configuration Error",
   industry    |-> "No Site Specified",
   pages       |-> [home |-> <<[component_name |-> "Placeholder",
                                props |-> [component_name |->
     "FATAL ERROR: SITE_DIRECTORY environment variable is not set. Please configure the server."]]>>]]

\* getBlueprint, blueprint.json unreadable or unparsable
LoadErrorBlueprint(siteDirectory) ==
  [client_name |-> "Error",
   industry    |-> "Could not load site: " \o siteDirectory,
   pages       |-> [home |-> <<>>]]

\* await fs.promises.readFile + JSON.parse inside try/catch
ParseBlueprintFile(file, siteDirectory) ==
  IF file.t = "json" THEN file.value ELSE LoadErrorBlueprint(siteDirectory)

\* blueprint.json files of a site: pages 'home' and 'pricing', each absent
\* or present, one of them with any list of up to MaxComponents components.
ComponentData ==
  [component_name : {"HeroSection1", "Mystery", "constructor"},
   props : {[title |-> "Welcome"]}]

ComponentLists == SeqUpTo(ComponentData, MaxComponents)

SimpleLists ==
  {<<>>, <<[component_name |-> "HeroSection1", props |-> [title |-> "Welcome"]]>>}

PagesSet ==
  {<<>>}
    \cup {[home |-> l] : l \in ComponentLists}
    \cup {[pricing |-> l] : l \in ComponentLists}
    \cup {[home |-> l, pricing |-> s] : l \in ComponentLists, s \in SimpleLists}
    \cup {[home |-> s, pricing |-> l] : l \in ComponentLists, s \in SimpleLists}

FileSet ==
  {[t |-> "missing"], [t |-> "invalid"]}
    \cup {[t |-> "json",
           value |-> [client_name |-> "Shahs Logistics",
                      industry |-> "Logistics", pages |-> ps]] :
            ps \in PagesSet}

EnvSet == {Undefined, Str(""), Str("shahslogistics_co_uk")}

\* ------------------------------------------------------------------ state
VARIABLES
  app,            \* which Next.js app the server runs
  siteBlueprint,  \* module constant siteBlueprint of the shahslogistics app
  env,            \* process.env.SITE_DIRECTORY
  blueprintFile,  \* ../sites/<SITE_DIRECTORY>/blueprint.json on disk
  req,            \* per request: position, params.slug, the locals
                  \* pagePath/pageKey and blueprint, and the returned view
  allPages,       \* contentlayer/generated allPages of the app/[slug] route
  slugReq,        \* per request of the app/[slug] route: params.slug, view
  fields,         \* Form: the fields prop
  form,           \* Form: formData, isLoading, error, successMessage
  pending,        \* Form: onSubmit promises not yet settled
  log,            \* Form: the handler that ran last, the one before it, and
                  \* what the last one did
  login,          \* Login: mounted or not, email, password, isSubmitting, error
  loginPending    \* Login: onLogin promises not yet settled

contentVars == <<allPages, slugReq>>

formVars == <<fields, form, pending, log>>

loginVars == <<login, loginPending>>

vars ==
  <<app, siteBlueprint, env, blueprintFile, req, contentVars, formVars,
    loginVars>>

\* The app/[slug] route and the Form component at rest.
IdleSlugRequest == [pc |-> "idle", slug |-> <<>>, view |-> [kind |-> "none"]]

ContentIdle ==
  /\ allPages = <<>>
  /\ slugReq = [r \in Requests |-> IdleSlugRequest]

FormUnmounted ==
  /\ fields = <<>>
  /\ form = [formData |-> <<>>, isLoading |-> FALSE,
             error |-> [t |-> "null"], successMessage |-> [t |-> "null"]]
  /\ pending = <<>>
  /\ log = [event |-> "none", prev |-> "none", detail |-> <<>>]

LoginUnmounted ==
  /\ login = [mounted |-> FALSE, email |-> "", password |-> "",
              isSubmitting |-> FALSE, error |-> [t |-> "null"]]
  /\ loginPending = <<>>

NoView == [kind |-> "none"]

IdleRequest ==
  [pc |-> "idle", slug |-> Undefined, key |-> Undefined,
   blueprint |-> Undefined, view |-> NoView]

Init ==
  /\ req = [r \in Requests |-> IdleRequest]
  /\ ContentIdle
  /\ FormUnmounted
  /\ LoginUnmounted
  /\ \/ /\ app = "shahslogistics_co_uk"
        /\ siteBlueprint \in BlueprintSet \cup {EmbeddedBlueprint}
        /\ env = Undefined
        /\ blueprintFile = [t |-> "missing"]
     \/ /\ app = "renderer"
        /\ siteBlueprint = [pages |-> <<>>]
        /\ \/ env = Str("shahslogistics_co_uk")
              /\ blueprintFile \in FileSet
           \/ env \in EnvSet /\ blueprintFile = [t |-> "missing"]

\* DynamicPage is called with params resolving to {slug}; runs to `await params`.
DynamicPageCall(r, slug) ==
  /\ app = "shahslogistics_co_uk"
  /\ req[r].pc = "idle"
  /\ req' = [req EXCEPT ![r].pc = "awaitParams", ![r].slug = slug]
  /\ UNCHANGED <<app, siteBlueprint, env, blueprintFile, contentVars, formVars,
                 loginVars>>

\* Mutant: DynamicPage reverses page.sections in place before mapping it
\* (Array.prototype.reverse mutates the embedded blueprint).
DynamicPageResumeReversing(r) ==
  LET pagePath == PagePath(req[r].slug)
      hits == {i \in 1..Len(siteBlueprint.pages) :
                 siteBlueprint.pages[i].page_path = pagePath}
      first == CHOOSE i \in hits : \A k \in hits : i <= k
      sections == siteBlueprint.pages[first].sections
      reversed == [i \in 1..Len(sections) |-> sections[Len(sections) + 1 - i]]
  IN  /\ req[r].pc = "awaitParams"
      /\ siteBlueprint' =
           IF hits = {} THEN siteBlueprint
           ELSE [siteBlueprint EXCEPT !.pages[first].sections = reversed]
      /\ req' = [req EXCEPT ![r].pc = "done",
                   ![r].key = Str(pagePath),
                   ![r].view = DynamicPageView(siteBlueprint', req[r].slug)]
      /\ UNCHANGED <<app, env, blueprintFile, contentVars, formVars,
                 loginVars>>

\* DynamicPage resumes after `await params` and returns its element.
DynamicPageResume(r) ==
  /\ req[r].pc = "awaitParams"
  /\ req' = [req EXCEPT ![r].pc = "done",
               ![r].key = Str(PagePath(req[r].slug)),
               ![r].view = DynamicPageView(siteBlueprint, req[r].slug)]
  /\ UNCHANGED <<app, siteBlueprint, env, blueprintFile, contentVars, formVars,
                 loginVars>>

\* Page is called; getBlueprint runs to its return (SITE_DIRECTORY not set)
\* or to `await fs.promises.readFile`.
PageCall(r, slug) ==
  /\ app = "renderer"
  /\ req[r].pc = "idle"
  /\ IF ~Truthy(env)
     THEN req' = [req EXCEPT ![r].pc = "awaitBlueprint", ![r].slug = slug,
                    ![r].blueprint = [t |-> "object",
                                      v |-> ConfigurationErrorBlueprint]]
     ELSE req' = [req EXCEPT ![r].pc = "readFile", ![r].slug = slug]
  /\ UNCHANGED <<app, siteBlueprint, env, blueprintFile, contentVars, formVars,
                 loginVars>>

\* readFile settles; getBlueprint parses or catches, and returns.
ReadFileSettle(r) ==
  /\ req[r].pc = "readFile"
  /\ req' = [req EXCEPT ![r].pc = "awaitBlueprint",
               ![r].blueprint = [t |-> "object",
                                 v |-> ParseBlueprintFile(blueprintFile, env.v)]]
  /\ UNCHANGED <<app, siteBlueprint, env, blueprintFile, contentVars, formVars,
                 loginVars>>

\* Page resumes after `await getBlueprint()` and returns its element.
PageResume(r) ==
  /\ req[r].pc = "awaitBlueprint"
  /\ req' = [req EXCEPT ![r].pc = "done",
               ![r].key = Str(PageKey(req[r].slug)),
               ![r].view = PageView(req[r].blueprint.v, req[r].slug)]
  /\ UNCHANGED <<app, siteBlueprint, env, blueprintFile, contentVars, formVars,
                 loginVars>>

\* The blueprint getBlueprint resolves to for the current environment and
\* file.
getBlueprint ==
  IF ~Truthy(env) THEN ConfigurationErrorBlueprint
  ELSE ParseBlueprintFile(blueprintFile, env.v)

\* generateStaticParams of the template renderer: the params of each key of
\* blueprint.pages.
generateStaticParams(blueprint) ==
  [page \in DOMAIN blueprint.pages |->
     [slug |-> IF page = "home" THEN Arr(<<>>) ELSE Arr(<<page>>)]]

\* Page is called with the params generateStaticParams produced for a key.
StaticPage(r, page) ==
  /\ page \in DOMAIN getBlueprint.pages
  /\ PageCall(r, generateStaticParams(getBlueprint)[page].slug)

Next ==
  \/ \E r \in Requests, slug \in SlugSet \cup EmbeddedSlugs :
       DynamicPageCall(r, slug)
  \/ \E r \in Requests : DynamicPageResume(r)
  \/ \E r \in Requests, slug \in SlugSet : PageCall(r, slug)
  \/ \E r \in Requests : ReadFileSettle(r)
  \/ \E r \in Requests : PageResume(r)
  \/ \E r \in Requests, page \in {"home", "pricing"} : StaticPage(r, page)

Spec == Init /\ [][Next]_vars

\* ------------------------------------------- app/[slug], contentlayer Page
\* Strings of this route are sequences of pieces: "/" is one slash, any
\* other piece is a run of characters without a slash.

\* s.replace(/^\//, ''): at most one leading slash is removed
StripLeadingSlash(s) ==
  IF Len(s) > 0 /\ s[1] = "/" THEN Tail(s) ELSE s

\* The slug field of the documents contentlayer generated.
DocumentSlugs ==
  {<<"about">>, <<"/", "about">>, <<"/", "/", "about">>, <<"/", "contact">>}

Documents ==
  {[slug |-> s, title |-> "Title", body |-> [code |-> "mdx"]] :
     s \in DocumentSlugs}

AllPagesSet == SeqUpTo(Documents, MaxPages)

\* params.slug of a request to /[slug]
ParamSlugs == {<<"about">>, <<"contact">>, <<"/", "about">>, <<"missing">>}

\* generateStaticParams of app/[slug]
ContentStaticParams(pages) ==
  [i \in 1..Len(pages) |-> [slug |-> StripLeadingSlash(pages[i].slug)]]

\* allPages.find(page => page.slug.replace(/^\//, '') === slug): the first
\* match, undefined when there is none
FindDocument(pages, slug) ==
  LET hits == {i \in 1..Len(pages) : StripLeadingSlash(pages[i].slug) = slug}
  IN  IF hits = {} THEN Undefined
      ELSE [t |-> "object",
            v |-> pages[CHOOSE i \in hits : \A k \in hits : i <= k]]

\* Page of app/[slug]: page.body.code is read before anything is rendered,
\* which throws a TypeError when find returned undefined.
ContentPageView(pages, slug) ==
  LET page == FindDocument(pages, slug)
  IN  IF page.t = "undefined"
      THEN [kind |-> "throw", error |-> "TypeError"]
      ELSE [kind |-> "page", title |-> page.v.title,
            code |-> page.v.body.code]

\* Page of app/[slug] called with params.slug = slug
ContentPage(r, slug) ==
  /\ slugReq[r].pc = "idle"
  /\ slugReq' = [slugReq EXCEPT ![r] =
       [pc |-> "done", slug |-> slug,
        view |-> ContentPageView(allPages, slug)]]
  /\ UNCHANGED <<app, siteBlueprint, env, blueprintFile, req, allPages,
                 formVars, loginVars>>

\* Page of app/[slug] called with the i-th params of generateStaticParams
ContentStaticPage(r, i) ==
  /\ i \in 1..Len(allPages)
  /\ ContentPage(r, ContentStaticParams(allPages)[i].slug)

InitContent ==
  /\ app = "shahslogistics_co_uk"
  /\ siteBlueprint = [pages |-> <<>>]
  /\ env = Undefined
  /\ blueprintFile = [t |-> "missing"]
  /\ req = [r \in Requests |-> IdleRequest]
  /\ allPages \in AllPagesSet
  /\ slugReq = [r \in Requests |-> IdleSlugRequest]
  /\ FormUnmounted
  /\ LoginUnmounted

NextContent ==
  \/ \E r \in Requests, slug \in ParamSlugs : ContentPage(r, slug)
  \/ \E r \in Requests, i \in 1..MaxPages : ContentStaticPage(r, i)

SpecContent == InitContent /\ [][NextContent]_vars

\* ------------------------------------------------------------------ Form
MaxFields == 2

\* onSubmit (onLogin) calls the model lets be in flight at the same time
MaxInFlight == 2

Null == [t |-> "null"]

\* The fields a form is built from (FormField: name, label, required).
FormFields ==
  {[name |-> "fullName", label |-> "Full Name", required |-> TRUE],
   [name |-> "userEmail", label |-> "Email", required |-> TRUE],
   [name |-> "userMessage", label |-> "Message", required |-> FALSE]}

\* The fields prop: up to MaxFields fields with unique names.
FieldLists ==
  {fs \in SeqUpTo(FormFields, MaxFields) :
     \A i, j \in 1..Len(fs) : i # j => fs[i].name # fs[j].name}

\* e.target.value of a change event
Values == {"", "a"}

\* What the promise of onSubmit rejects with (or onSubmit throws): an Error
\* with a message, an Error with an empty message, a value that is no Error.
Rejections ==
  {[t |-> "Error", message |-> "Network down"],
   [t |-> "Error", message |-> ""],
   [t |-> "string", v |-> "boom"]}

FieldNames(fs) == {fs[i].name : i \in 1..Len(fs)}

\* Mutant: only the first field is reset.
resetStateFirstOnly(fs) ==
  [n \in {fs[i].name : i \in 1..Len(fs)} |->
     IF n = fs[1].name THEN "" ELSE "a"]

\* initialState / resetState: every field name mapped to ""
resetState(fs) == [n \in FieldNames(fs) |-> ""]

\* Mutant: the last required field without a value.
LastMissing(fs, formData) ==
  LET missing == {i \in 1..Len(fs) :
                    fs[i].required /\ formData[fs[i].name] = ""}
  IN  IF missing = {} THEN 0
      ELSE CHOOSE i \in missing : \A k \in missing : k <= i

\* The validation loop of handleSubmit: the index of the first field with
\* field.required && !formData[field.name], 0 when the loop ends.
FirstMissing(fs, formData) ==
  LET missing == {i \in 1..Len(fs) :
                    fs[i].required /\ formData[fs[i].name] = ""}
  IN  IF missing = {} THEN 0
      ELSE CHOOSE i \in missing : \A k \in missing : i <= k

\* Mutant: handleSubmit starts without clearing the two messages.
SubmitStartKeepingMessages(f) == [f EXCEPT !.isLoading = TRUE]

\* setError(null); setSuccessMessage(null); setIsLoading(true)
SubmitStart(f) ==
  [f EXCEPT !.error = Null, !.successMessage = Null, !.isLoading = TRUE]

\* The text the catch block passes to setError.
CaughtMessage(err) ==
  IF err.t = "Error"
  THEN IF err.message # "" THEN err.message
       ELSE "An unexpected error occurred."
  ELSE "An unexpected error occurred."

Log(event, detail) == [event |-> event, prev |-> log.event, detail |-> detail]

\* handleChange for the input of field i
HandleChange(i, value) ==
  /\ i \in 1..Len(fields)
  /\ form' = [form EXCEPT !.formData[fields[i].name] = value]
  /\ log' = Log("handleChange", <<>>)
  /\ UNCHANGED <<app, siteBlueprint, env, blueprintFile, req, contentVars,
                 fields, pending, loginVars>>

\* Mutant: a submit button without the disabled attribute.
SubmitNeverDisabled(f) == FALSE

\* <button type="submit" disabled={isLoading}>: a disabled default button
\* takes no click and blocks implicit submission from the inputs.
SubmitDisabled(f) == f.isLoading

\* The Form is on the page.
FormMounted == log.event # "none"

\* A submit event reaches handleSubmit, which runs up to its return or its
\* await.  No submit event arrives while the submit button is disabled.
HandleSubmit ==
  /\ FormMounted
  /\ ~SubmitDisabled(form)
  /\ Len(pending) < MaxInFlight
  /\ LET started == SubmitStart(form)
         missing == FirstMissing(fields, form.formData)
     IN  IF missing # 0
         THEN /\ form' = [started EXCEPT
                   !.error = Str(fields[missing].label \o " is required."),
                   !.isLoading = FALSE]
              /\ pending' = pending
              /\ log' = Log("handleSubmit", [called |-> FALSE])
         ELSE /\ form' = started
              /\ pending' = Append(pending, [formData |-> form.formData])
              /\ log' = Log("handleSubmit", [called |-> TRUE])
  /\ UNCHANGED <<app, siteBlueprint, env, blueprintFile, req, contentVars,
                 fields, loginVars>>

\* pending without its k-th element
Settled(k) == [i \in 1..(Len(pending) - 1) |->
                 IF i < k THEN pending[i] ELSE pending[i + 1]]

\* The promise of the k-th pending onSubmit call fulfils: handleSubmit
\* resumes after the await, then runs the finally block.
OnSubmitResolve(k) ==
  /\ k \in 1..Len(pending)
  /\ form' = [form EXCEPT
       !.successMessage = Str("Form submitted successfully!"),
       !.formData = resetState(fields),
       !.isLoading = FALSE]
  /\ pending' = Settled(k)
  /\ log' = Log("resolved", <<>>)
  /\ UNCHANGED <<app, siteBlueprint, env, blueprintFile, req, contentVars,
                 fields, loginVars>>

\* The promise of the k-th pending onSubmit call rejects with err:
\* handleSubmit resumes in the catch block, then runs the finally block.
OnSubmitReject(k, err) ==
  /\ k \in 1..Len(pending)
  /\ form' = [form EXCEPT !.error = Str(CaughtMessage(err)),
                          !.isLoading = FALSE]
  /\ pending' = Settled(k)
  /\ log' = Log("rejected", err)
  /\ UNCHANGED <<app, siteBlueprint, env, blueprintFile, req, contentVars,
                 fields, loginVars>>

\* Form mounted with a fields prop: every value "", no message, not loading.
InitForm ==
  /\ app = "shahslogistics_co_uk"
  /\ siteBlueprint = [pages |-> <<>>]
  /\ env = Undefined
  /\ blueprintFile = [t |-> "missing"]
  /\ req = [r \in Requests |-> IdleRequest]
  /\ ContentIdle
  /\ fields \in FieldLists
  /\ form = [formData |-> resetState(fields), isLoading |-> FALSE,
             error |-> Null, successMessage |-> Null]
  /\ pending = <<>>
  /\ log = [event |-> "mount", prev |-> "none", detail |-> <<>>]
  /\ LoginUnmounted

NextForm ==
  \/ \E i \in 1..MaxFields, value \in Values : HandleChange(i, value)
  \/ HandleSubmit
  \/ \E k \in 1..MaxInFlight : OnSubmitResolve(k)
  \/ \E k \in 1..MaxInFlight, err \in Rejections : OnSubmitReject(k, err)

SpecForm == InitForm /\ [][NextForm]_vars

\* ----------------------------------------------------------------- Login
\* Mutant: a finally block that leaves isSubmitting as it is.
LoginFinallySkipped(l) == l

\* finally { setIsSubmitting(false) }
LoginFinally(l) == [l EXCEPT !.isSubmitting = FALSE]

\* <button type="submit" disabled={isSubmitting}>
LoginDisabled(l) == l.isSubmitting

\* The text the catch block of Login passes to setError.
LoginCaughtMessage(err) ==
  IF err.t = "Error" THEN err.message
  ELSE "An unexpected error occurred. Please try again."

\* onChange of the email input
SetEmail(value) ==
  /\ login.mounted
  /\ login' = [login EXCEPT !.email = value]
  /\ UNCHANGED <<app, siteBlueprint, env, blueprintFile, req, contentVars,
                 formVars, loginPending>>

\* onChange of the password input
SetPassword(value) ==
  /\ login.mounted
  /\ login' = [login EXCEPT !.password = value]
  /\ UNCHANGED <<app, siteBlueprint, env, blueprintFile, req, contentVars,
                 formVars, loginPending>>

\* A submit event reaches handleSubmit of Login, which runs up to its await.
LoginHandleSubmit ==
  /\ login.mounted
  /\ ~LoginDisabled(login)
  /\ Len(loginPending) < MaxInFlight
  /\ login' = [login EXCEPT !.error = Null, !.isSubmitting = TRUE]
  /\ loginPending' = Append(loginPending,
       [email |-> login.email, password |-> login.password])
  /\ UNCHANGED <<app, siteBlueprint, env, blueprintFile, req, contentVars,
                 formVars>>

\* loginPending without its k-th element
LoginSettled(k) == [i \in 1..(Len(loginPending) - 1) |->
                      IF i < k THEN loginPending[i] ELSE loginPending[i + 1]]

\* The promise of the k-th pending onLogin call fulfils: the try block has
\* nothing left to do, the finally block runs.
OnLoginResolve(k) ==
  /\ k \in 1..Len(loginPending)
  /\ login' = LoginFinally(login)
  /\ loginPending' = LoginSettled(k)
  /\ UNCHANGED <<app, siteBlueprint, env, blueprintFile, req, contentVars,
                 formVars>>

\* The promise of the k-th pending onLogin call rejects with err: the catch
\* block sets error, the finally block runs.
OnLoginReject(k, err) ==
  /\ k \in 1..Len(loginPending)
  /\ login' = LoginFinally(
       [login EXCEPT !.error = Str(LoginCaughtMessage(err))])
  /\ loginPending' = LoginSettled(k)
  /\ UNCHANGED <<app, siteBlueprint, env, blueprintFile, req, contentVars,
                 formVars>>

\* Login mounted: empty email and password, not submitting, no error.
InitLogin ==
  /\ app = "shahslogistics_co_uk"
  /\ siteBlueprint = [pages |-> <<>>]
  /\ env = Undefined
  /\ blueprintFile = [t |-> "missing"]
  /\ req = [r \in Requests |-> IdleRequest]
  /\ ContentIdle
  /\ FormUnmounted
  /\ login = [mounted |-> TRUE, email |-> "", password |-> "",
              isSubmitting |-> FALSE, error |-> Null]
  /\ loginPending = <<>>

\* ------------------------------------------- a page with a Form or a Login
InitSubmit == InitForm \/ InitLogin

\* An onSubmit promise settles.
FormSettle ==
  \/ \E k \in 1..MaxInFlight : OnSubmitResolve(k)
  \/ \E k \in 1..MaxInFlight, err \in Rejections : OnSubmitReject(k, err)

\* An onLogin promise settles.
LoginSettle ==
  \/ \E k \in 1..MaxInFlight : OnLoginResolve(k)
  \/ \E k \in 1..MaxInFlight, err \in Rejections : OnLoginReject(k, err)

NextSubmit ==
  \/ \E i \in 1..MaxFields, value \in Values : HandleChange(i, value)
  \/ HandleSubmit
  \/ \E k \in 1..MaxInFlight : OnSubmitResolve(k)
  \/ \E k \in 1..MaxInFlight, err \in Rejections : OnSubmitReject(k, err)
  \/ \E value \in Values : SetEmail(value)
  \/ \E value \in Values : SetPassword(value)
  \/ LoginHandleSubmit
  \/ \E k \in 1..MaxInFlight : OnLoginResolve(k)
  \/ \E k \in 1..MaxInFlight, err \in Rejections : OnLoginReject(k, err)

SpecSubmit == InitSubmit /\ [][NextSubmit]_vars

\* Every promise of onSubmit and of onLogin settles.
FairSpecSubmit ==
  SpecSubmit /\ WF_vars(FormSettle) /\ WF_vars(LoginSettle)

\* ================================================================= claims
DynamicDone(r) == app = "shahslogistics_co_uk" /\ req[r].pc = "done"

PageDone(r) == app = "renderer" /\ req[r].pc = "done"

\* The page of the embedded blueprint a finished DynamicPage request asked
\* for: the first page whose page_path is the request's pagePath.
IsRequestedPage(r, i) ==
  /\ i \in 1..Len(siteBlueprint.pages)
  /\ siteBlueprint.pages[i].page_path = req[r].key.v
  /\ \A k \in 1..(i - 1) : siteBlueprint.pages[k].page_path # req[r].key.v

\* The blueprint a finished template request loaded.
Loaded(r) == req[r].blueprint.v

\* node is the rendering of component c: same id, the component's own
\* implementation or the placeholder, every entry of the bag passed on.
NodeRenders(node, c) ==
  /\ node.key = c.id
  /\ node.child.type \in {c.component_name, "Placeholder"}
  /\ \A k \in DOMAIN c.props :
       k \in DOMAIN node.child.props /\ node.child.props[k] = c.props[k]

DynamicMatches(view, page) ==
  /\ view.kind = "page"
  /\ Len(view.sections) = Len(page.sections)
  /\ \A i \in 1..Len(page.sections) :
       /\ view.sections[i].id = page.sections[i].id
       /\ Len(view.sections[i].nodes) = Len(page.sections[i].components)
       /\ \A j \in 1..Len(page.sections[i].components) :
            NodeRenders(view.sections[i].nodes[j],
                        page.sections[i].components[j])

TemplateNodes(view) == IF view.kind = "page" THEN view.nodes ELSE <<>>

TemplateNodeRenders(node, cd) ==
  IF node.type = "Placeholder"
  THEN node.props.component_name = cd.component_name
  ELSE /\ node.props = cd.props
       /\ cd.component_name \in DOMAIN componentMap
            => node.type = cd.component_name

TemplateMatches(view, list) ==
  /\ view.kind # "throw"
  /\ Len(TemplateNodes(view)) = Len(list)
  /\ \A j \in 1..Len(list) :
       /\ TemplateNodes(view)[j].key = j - 1
       /\ TemplateNodeRenders(TemplateNodes(view)[j], list[j])

\* C1: for every path that resolves to a page, the dispatcher emits exactly
\* one node per declared component, in declaration order (sections in
\* page.sections order and components in section.components order in
\* DynamicPage; blueprint.pages[pageKey] order in the template Page).
C1_DeclarationOrder ==
  \A r \in Requests :
    /\ DynamicDone(r) =>
         \A i \in 1..Len(siteBlueprint.pages) :
           IsRequestedPage(r, i) =>
             DynamicMatches(req[r].view, siteBlueprint.pages[i])
    /\ PageDone(r) /\ req[r].key.v \in DOMAIN Loaded(r).pages =>
         TemplateMatches(req[r].view, Loaded(r).pages[req[r].key.v])

\* C1 witness: a rendered page of two sections, one with two different
\* components.
C1_Witness ==
  \E r \in Requests :
    /\ DynamicDone(r)
    /\ req[r].view.kind = "page"
    /\ Len(req[r].view.sections) = 2
    /\ \E i \in 1..2 :
         /\ Len(req[r].view.sections[i].nodes) = 2
         /\ req[r].view.sections[i].nodes[1] # req[r].view.sections[i].nodes[2]

\* C2 (as claimed): in DynamicPage every component whose component_name has
\* no case in the switch is rendered as a Placeholder whose componentName
\* is exactly that component_name, whatever the property bag holds.
C2_PlaceholderCarriesName ==
  \A r \in Requests :
    DynamicDone(r) =>
      \A p \in 1..Len(siteBlueprint.pages) :
        IsRequestedPage(r, p) =>
          /\ req[r].view.kind = "page"
          /\ \A i \in 1..Len(siteBlueprint.pages[p].sections) :
               \A j \in 1..Len(siteBlueprint.pages[p].sections[i].components) :
                 LET c == siteBlueprint.pages[p].sections[i].components[j]
                     n == req[r].view.sections[i].nodes[j].child
                 IN  c.component_name \notin RenderCases =>
                       /\ n.type = "Placeholder"
                       /\ Placeholder(n.props) = Str(c.component_name)

\* C3 (as claimed): in the template Page every component whose
\* component_name is not a key of componentMap is rendered as a Placeholder
\* that displays exactly that name (the prop it reads is componentName).
C3_TemplatePlaceholderShowsName ==
  \A r \in Requests :
    PageDone(r) /\ req[r].view.kind = "page"
               /\ req[r].key.v \in DOMAIN Loaded(r).pages =>
      \A j \in 1..Len(req[r].view.nodes) :
        LET cd == Loaded(r).pages[req[r].key.v][j]
            n  == req[r].view.nodes[j]
        IN  cd.component_name \notin DOMAIN componentMap =>
              /\ n.type = "Placeholder"
              /\ Placeholder(n.props) = Str(cd.component_name)

\* C4: in DynamicPage a requested path that equals the page_path of no page
\* of the blueprint yields the 404 view: no section, no component node, no
\* placeholder, no error.
C4_UnknownPathNotFound ==
  \A r \in Requests :
    DynamicDone(r)
      /\ (\A i \in 1..Len(siteBlueprint.pages) :
            siteBlueprint.pages[i].page_path # req[r].key.v) =>
        /\ req[r].view.kind = "notFound"
        /\ DOMAIN req[r].view = {"kind", "url"}

\* C4 witness: a 404 view returned for a blueprint that has pages.
C4_Witness ==
  \E r \in Requests :
    /\ DynamicDone(r)
    /\ Len(siteBlueprint.pages) > 0
    /\ req[r].view.kind = "notFound"

\* C5 (as claimed): in the template Page every page key that is not a key
\* of blueprint.pages, 'home' included, yields the 404 view.
C5_MissingKeyNotFound ==
  \A r \in Requests :
    PageDone(r) /\ req[r].key.v \notin DOMAIN Loaded(r).pages =>
      req[r].view.kind = "notFound"

\* C6 (as claimed): the template Page yields the 404 view only when
\* blueprint.pages has no entry for the page key; a declared page with an
\* empty component list is a found page with zero nodes.
C6_NotFoundOnlyWhenUndeclared ==
  \A r \in Requests :
    PageDone(r) /\ req[r].view.kind = "notFound" =>
      req[r].key.v \notin DOMAIN Loaded(r).pages

\* The lookup key C7 asks for: the home key for an absent or empty slug,
\* else the segments joined with '/' (after the leading '/' in DynamicPage).
ExpectedKey(slug) ==
  IF slug.t = "undefined" \/ Len(slug.v) = 0
  THEN IF app = "renderer" THEN "home" ELSE "/"
  ELSE IF app = "renderer" THEN Join(slug.v, "/")
       ELSE "/" \o Join(slug.v, "/")

\* C7 (as claimed): in both dispatchers an absent or empty params.slug
\* resolves to the home page key and a non-empty slug to its segments
\* joined with '/'.
C7_RootResolvesToHome ==
  \A r \in Requests :
    req[r].pc = "done" => req[r].key = Str(ExpectedKey(req[r].slug))

SameViewForSameSlug ==
  \A r1, r2 \in Requests :
    DynamicDone(r1) /\ DynamicDone(r2) /\ req[r1].slug = req[r2].slug =>
      req[r1].view = req[r2].view

\* C9: resolving the same blueprint and path twice with DynamicPage yields
\* structurally identical output, and no step changes the blueprint.
C9_Idempotent ==
  /\ []SameViewForSameSlug
  /\ [][siteBlueprint' = siteBlueprint]_vars

\* C9 witness: the same path of a page with components resolved twice.
C9_Witness ==
  /\ DynamicDone("r1") /\ DynamicDone("r2")
  /\ req["r1"].slug = req["r2"].slug
  /\ req["r1"].view.kind = "page"
  /\ Len(req["r1"].view.sections) = 2

\* The blueprint getBlueprint resolves to when nothing else runs.
BlueprintAlone ==
  IF ~Truthy(env) THEN ConfigurationErrorBlueprint
  ELSE ParseBlueprintFile(blueprintFile, env.v)

\* The view request r returns when it is the only request served.
ViewAlone(r) ==
  IF app = "renderer" THEN PageView(BlueprintAlone, req[r].slug)
  ELSE DynamicPageView(siteBlueprint, req[r].slug)

EveryViewIsViewAlone ==
  \A r \in Requests : req[r].pc = "done" => req[r].view = ViewAlone(r)

\* C10: under every interleaving of concurrent resolutions each request
\* returns the view it returns when run alone, and no step writes the state
\* the requests share (the embedded blueprint, the environment, the file).
C10_Independent ==
  /\ []EveryViewIsViewAlone
  /\ [][UNCHANGED <<app, siteBlueprint, env, blueprintFile>>]_vars

\* C10 witness: a request has returned a rendered page while another
\* request, for a different path, is suspended at an await.
C10_Witness ==
  \E r1, r2 \in Requests :
    /\ req[r1].pc = "done" /\ req[r1].view.kind = "page"
    /\ req[r2].pc \in {"awaitParams", "readFile", "awaitBlueprint"}
    /\ req[r1].slug # req[r2].slug

\* C11 (as claimed): the contentlayer-backed Page of app/[slug] answers a
\* slug that matches no entry of allPages (after stripping one leading '/')
\* with a not-found result and does not throw.
C11_UnknownSlugNotFound ==
  \A r \in Requests :
    slugReq[r].pc = "done"
      /\ (\A i \in 1..Len(allPages) :
            StripLeadingSlash(allPages[i].slug) # slugReq[r].slug) =>
        slugReq[r].view.kind = "notFound"

\* The message of the fallback blueprint for an unset SITE_DIRECTORY.
FatalMessage ==
  ConfigurationErrorBlueprint.pages.home[1].props.component_name

\* C12 (as claimed): with SITE_DIRECTORY unset, rendering the home page with
\* the template renderer shows the 'FATAL ERROR: SITE_DIRECTORY environment
\* variable is not set. ...' message: some node displays it, or at least
\* receives it in one of its props.
C12_FatalMessageShown ==
  \A r \in Requests :
    PageDone(r) /\ ~Truthy(env) /\ req[r].key = Str("home") =>
      /\ req[r].view.kind = "page"
      /\ \E j \in 1..Len(req[r].view.nodes) :
           LET n == req[r].view.nodes[j]
           IN  \/ n.type = "Placeholder" /\ Placeholder(n.props) = Str(FatalMessage)
               \/ \E k \in DOMAIN n.props : n.props[k] = FatalMessage

\* getBlueprint took a fallback: SITE_DIRECTORY unset, or blueprint.json
\* unreadable or unparsable.
FellBack == ~Truthy(env) \/ blueprintFile.t # "json"

\* C13 (as claimed): getBlueprint never rejects; when it falls back, the
\* blueprint it resolves to has a 'home' key, so Page renders the home path
\* without throwing and every other path as the 404 view.
C13_FallbackRendersHomeOnly ==
  \A r \in Requests :
    /\ app = "renderer" /\ req[r].pc \in {"awaitBlueprint", "done"} =>
         req[r].blueprint.t = "object"
    /\ PageDone(r) /\ FellBack =>
         /\ "home" \in DOMAIN Loaded(r).pages
         /\ req[r].key = Str("home") => req[r].view.kind = "page"
         /\ req[r].key # Str("home") => req[r].view.kind = "notFound"

\* C14 (as claimed): for every page key k of blueprint.pages, 'home'
\* included, the params generateStaticParams emits for k resolve to page k
\* in Page, never to the 404 view.
C14_StaticParamsRoundTrip ==
  \A r \in Requests :
    PageDone(r) =>
      \A k \in DOMAIN Loaded(r).pages :
        req[r].slug = generateStaticParams(Loaded(r))[k].slug =>
          /\ req[r].key = Str(k)
          /\ req[r].view.kind = "page"
          /\ TemplateMatches(req[r].view, Loaded(r).pages[k])

\* C15 (as claimed): the lookups in componentMap and in blueprint.pages
\* match only declared keys, also for names every object inherits
\* ('constructor', 'toString'): an undeclared page key of that kind yields
\* the 404 view, an unregistered component name of that kind yields a
\* Placeholder, and no such name makes Page throw.
C15_OnlyDeclaredKeysMatch ==
  \A r \in Requests :
    PageDone(r) =>
      /\ req[r].key.v \in DOMAIN ObjectPrototype \ DOMAIN Loaded(r).pages =>
           req[r].view.kind = "notFound"
      /\ req[r].view.kind = "page" /\ req[r].key.v \in DOMAIN Loaded(r).pages =>
           \A j \in 1..Len(req[r].view.nodes) :
             Loaded(r).pages[req[r].key.v][j].component_name
                 \in DOMAIN ObjectPrototype \ DOMAIN componentMap =>
               req[r].view.nodes[j].type = "Placeholder"

\* The server runs the site with the blueprint embedded in its page.tsx.
Embedded == app = "shahslogistics_co_uk" /\ siteBlueprint = EmbeddedBlueprint

\* C16: every component_name of the embedded siteBlueprint has a case in
\* the switch of renderComponent, so DynamicPage renders no Placeholder node
\* for any page path of the embedded blueprint.
C16_EmbeddedNamesAllKnown ==
  Embedded =>
    /\ \A p \in 1..Len(siteBlueprint.pages) :
         \A i \in 1..Len(siteBlueprint.pages[p].sections) :
           \A j \in 1..Len(siteBlueprint.pages[p].sections[i].components) :
             siteBlueprint.pages[p].sections[i].components[j].component_name
               \in RenderCases
    /\ \A r \in Requests :
         DynamicDone(r) /\ req[r].view.kind = "page" =>
           \A i \in 1..Len(req[r].view.sections) :
             \A j \in 1..Len(req[r].view.sections[i].nodes) :
               req[r].view.sections[i].nodes[j].child.type # "Placeholder"

\* C16 witness: the dashboard page of the embedded blueprint rendered with
\* its three sections while the login page is rendered for another request.
C16_Witness ==
  /\ Embedded
  /\ DynamicDone("r1") /\ req["r1"].key = Str("/dashboard")
  /\ req["r1"].view.kind = "page" /\ Len(req["r1"].view.sections) = 3
  /\ DynamicDone("r2") /\ req["r2"].key = Str("/login")
  /\ req["r2"].view.kind = "page"

\* pages in the order f, a permutation of its indices
Reordered(pages, f) == [i \in 1..Len(pages) |-> pages[f[i]]]

\* C17: no two pages of the embedded siteBlueprint share a page_path, so
\* the first-match lookup of DynamicPage has at most one candidate and the
\* page it selects does not depend on the order the pages are declared in.
C17_PagePathsUnique ==
  Embedded =>
    /\ \A p, q \in 1..Len(siteBlueprint.pages) :
         p # q => siteBlueprint.pages[p].page_path
                    # siteBlueprint.pages[q].page_path
    /\ \A r \in Requests :
         DynamicDone(r) =>
           /\ Cardinality({p \in 1..Len(siteBlueprint.pages) :
                 siteBlueprint.pages[p].page_path = req[r].key.v}) <= 1
           /\ \A f \in Permutations(1..Len(siteBlueprint.pages)) :
                req[r].view
                  = DynamicPageView(
                      [pages |-> Reordered(siteBlueprint.pages, f)],
                      req[r].slug)

\* C17 witness: the pricing page, declared third, selected for /pricing.
C17_Witness ==
  \E r \in Requests :
    /\ Embedded /\ DynamicDone(r)
    /\ req[r].key = Str("/pricing")
    /\ req[r].view.kind = "page"
    /\ req[r].view.sections[3].id = "S_Pricing_Plans"

\* The required fields of the form that hold the empty string.
RequiredAndEmpty ==
  {i \in 1..Len(fields) :
     fields[i].required /\ form.formData[fields[i].name] = ""}

\* A step in which handleSubmit ran.
SubmitStep == log'.event = "handleSubmit" /\ vars' # vars

\* C18: handleSubmit calls onSubmit (with the field values) if and only if
\* every required field has a non-empty value; otherwise onSubmit is not
\* called, error is '<label> is required.' for the first such field in
\* declaration order, isLoading is false again and the field values are
\* unchanged.
C18_ValidationGatesOnSubmit ==
  [][SubmitStep =>
       IF RequiredAndEmpty = {}
       THEN /\ log'.detail.called
            /\ pending' = Append(pending, [formData |-> form.formData])
       ELSE /\ ~log'.detail.called
            /\ pending' = pending
            /\ \E i \in RequiredAndEmpty :
                 /\ \A k \in RequiredAndEmpty : i <= k
                 /\ form'.error = Str(fields[i].label \o " is required.")
            /\ ~form'.isLoading
            /\ form'.formData = form.formData]_vars

\* C18 witness: a form with two required fields was submitted with the
\* first filled and the second empty, and onSubmit was not called.
C18_Witness ==
  /\ Len(fields) = 2
  /\ fields[1].required /\ fields[2].required
  /\ form.formData[fields[1].name] # "" /\ form.formData[fields[2].name] = ""
  /\ log.event = "handleSubmit" /\ ~log.detail.called
  /\ form.error = Str(fields[2].label \o " is required.")

\* The rejection carries a message: it is an Error with a non-empty message.
HasMessage(err) == err.t = "Error" /\ err.message # ""

\* C19: when a submission completes by onSubmit resolving, successMessage
\* is set and every field value is "" (also a field edited while the
\* submission was pending); when it completes by onSubmit rejecting, error
\* is the message of the rejection, or 'An unexpected error occurred.' when
\* the rejection has none, and the field values stay as they were entered.
C19_CompletionOutcome ==
  [][/\ log'.event = "resolved" /\ vars' # vars =>
          /\ form'.successMessage # Null
          /\ \A i \in 1..Len(fields) : form'.formData[fields[i].name] = ""
     /\ log'.event = "rejected" /\ vars' # vars =>
          /\ form'.error =
               IF HasMessage(log'.detail) THEN Str(log'.detail.message)
               ELSE Str("An unexpected error occurred.")
          /\ form'.formData = form.formData]_vars

\* C19 witness: a field was edited while the submission was pending, then
\* onSubmit resolved and the fields are empty again, the success message
\* shown.
C19_Witness ==
  /\ log.event = "resolved" /\ log.prev = "handleChange"
  /\ Len(fields) = 2
  /\ \A i \in 1..Len(fields) : form.formData[fields[i].name] = ""
  /\ form.successMessage = Str("Form submitted successfully!")

\* C20: in every state of Form, after any sequence of field edits and
\* submissions, error and successMessage are not both non-null.
C20_OneMessageAtMost ==
  ~(form.error # Null /\ form.successMessage # Null)

\* C20 witness: right after a submission succeeded (the success message
\* shown, the fields reset) the form was submitted again and failed
\* validation; the error is shown and the success message is gone.
C20_Witness ==
  /\ log.event = "handleSubmit" /\ log.prev = "resolved"
  /\ ~log.detail.called
  /\ form.error # Null /\ form.successMessage = Null

\* The loading flag of each component is true only while one of its
\* submissions is in progress.
LoadingOnlyWhilePending ==
  /\ form.isLoading => pending # <<>>
  /\ login.isSubmitting => loginPending # <<>>

\* A step in which a submission of Form ended: validation failed in
\* handleSubmit, or the promise of onSubmit settled.
SubmissionEnds ==
  /\ vars' # vars
  /\ \/ log'.event = "handleSubmit" /\ ~log'.detail.called
     \/ log'.event \in {"resolved", "rejected"}

\* C21: every submission of Form and of Login that is started eventually
\* leaves the loading flag (isLoading / isSubmitting) false, whether
\* validation fails, the callback resolves or the callback rejects, given
\* that the promise of the callback settles; the flag is true only while a
\* submission is in progress.
C21_LoadingEndsEventually ==
  /\ []LoadingOnlyWhilePending
  /\ [][SubmissionEnds => ~form'.isLoading]_vars
  /\ [][Len(loginPending') < Len(loginPending) => ~login'.isSubmitting]_vars
  /\ form.isLoading ~> ~form.isLoading
  /\ login.isSubmitting ~> ~login.isSubmitting

\* C21 witness: a submission of Form was started, its promise rejected,
\* and the flag is false again with the error shown.
C21_Witness ==
  /\ log.event = "rejected" /\ log.prev = "handleSubmit"
  /\ ~form.isLoading /\ pending = <<>>
  /\ form.error = Str("Network down")

\* While a call is in flight the submit control is disabled, and no more
\* than one call is in flight.
OneInFlight ==
  /\ Len(pending) <= 1
  /\ Len(loginPending) <= 1
  /\ pending # <<>> => SubmitDisabled(form)
  /\ loginPending # <<>> => LoginDisabled(login)

\* C22: at most one onSubmit call of Form (and one onLogin call of Login)
\* is in flight at any time: while a submission is pending the submit
\* control is disabled, so no handleSubmit starts before the one before it
\* has finished.
C22_AtMostOneInFlight ==
  /\ []OneInFlight
  /\ [][Len(pending') > Len(pending) => pending = <<>>]_vars
  /\ [][Len(loginPending') > Len(loginPending) => loginPending = <<>>]_vars

\* C22 witness: an onLogin call is in flight, the button is disabled, and
\* the email was edited after the call was made.
C22_Witness ==
  /\ Len(loginPending) = 1
  /\ LoginDisabled(login)
  /\ loginPending[1].email = "a" /\ login.email = ""

====
